---- MODULE Spec2Model ----
(***************************************************************************)
(* Model of app.py: a Streamlit page that extracts the text of an uploaded *)
(* PDF, keeps it in the session, and chats with a Gemini chat session      *)
(* about it.  One action of the model is one run of the script, caused by  *)
(* one user interaction (Streamlit runs the script top to bottom once per  *)
(* interaction; st.rerun() starts it again with the session state kept).   *)
(* A run ends early, at its next st.* call or st.session_state access,     *)
(* when another interaction is pending.                                    *)
(*                                                                         *)
(* A Python str is the sequence of its characters, one element for each,   *)
(* so lengths, concatenation, strip() and the substring test are computed  *)
(* on the real characters.  Roles and kinds, whose characters the program  *)
(* never looks at, stay TLA+ strings.                                      *)
(***************************************************************************)
EXTENDS Integers, Sequences, FiniteSets, TLC

(***************************************************************************)
(* Bounds of the model.                                                    *)
(***************************************************************************)
\* pages of an uploaded PDF
MaxPages == 3
\* entries of messages: a chat input is taken while its two entries fit
MaxMessages == 2
\* chat sessions started (start_chat calls) in one behaviour
MaxChats == 3
\* runs stopped by a later interaction in one behaviour
MaxStops == 1

(***************************************************************************)
(* Python values.  None is the empty tuple and any other value x is <<x>>, *)
(* so that None compares with every value.                                 *)
(***************************************************************************)
None == <<>>
Some(x) == <<x>>
Val(o) == o[1]

\* bool(o) of an optional str: None and the empty str are falsy
Truthy(o) == o # None /\ Val(o) # <<>>

(***************************************************************************)
(* Texts.  A character is a string of one character when it is a printable *)
(* ASCII character or one of \n \t \r \f, and otherwise its code point     *)
(* written "U+" and four or more hexadecimal digits; no two characters are *)
(* written the same, and no character takes more than one place.           *)
(***************************************************************************)
RECURSIVE Chars(_)
\* the str whose characters are those of the TLA+ string s
Chars(s) ==
    IF Len(s) = 0 THEN <<>>
    ELSE <<SubSeq(s, 1, 1)>> \o Chars(SubSeq(s, 2, Len(s)))

\* the characters str.strip() removes: those str.isspace() holds of
Whitespace ==
    { " ", "\n", "\t", "\r", "\f",
      "U+000B", "U+001C", "U+001D", "U+001E", "U+001F", "U+0085", "U+00A0", "U+1680",
      "U+2000", "U+2001", "U+2002", "U+2003", "U+2004", "U+2005",
      "U+2006", "U+2007", "U+2008", "U+2009", "U+200A",
      "U+2028", "U+2029", "U+202F", "U+205F", "U+3000" }

RECURSIVE lstrip(_)
lstrip(s) ==
    IF s # <<>> /\ Head(s) \in Whitespace THEN lstrip(Tail(s)) ELSE s

RECURSIVE rstrip(_)
rstrip(s) ==
    IF s # <<>> /\ s[Len(s)] \in Whitespace THEN rstrip(SubSeq(s, 1, Len(s) - 1)) ELSE s

\* s.strip()
strip(s) == rstrip(lstrip(s))

\* sub in s
Contains(s, sub) ==
    \E i \in 1..(Len(s) - Len(sub) + 1) : SubSeq(s, i, i + Len(sub) - 1) = sub

RECURSIVE Rep(_, _)
\* c * n
Rep(c, n) ==
    IF n <= 0 THEN <<>>
    ELSE IF n % 2 = 1 THEN c \o Rep(c, n - 1)
    ELSE LET h == Rep(c, n \div 2) IN h \o h

RECURSIVE SeqsUpTo(_, _)
\* the sequences over S of length at most n
SeqsUpTo(S, n) ==
    IF n = 0 THEN {<<>>}
    ELSE LET shorter == SeqsUpTo(S, n - 1)
         IN  shorter \cup {Append(q, x) : q \in shorter, x \in S}

(***************************************************************************)
(* Program constants and literals.                                         *)
(***************************************************************************)
MODEL_NAME == Chars("gemini-2.0-flash")
\* the length above which the chat handler warns
PromptWarnLength == 28000

NoTextMessage == Chars("No text could be extracted from this PDF.")
ErrorReadingMarker == Chars("Error reading PDF")
NoTextMarker == Chars("No text could be extracted")
ContextLoadedInfo ==
    <<"U+2139", "U+FE0F">>
    \o Chars(" PDF context is loaded. Your questions will be answered based on the uploaded document.")
LongPromptWarning ==
    <<"U+26A0", "U+FE0F">>
    \o Chars(" The PDF content combined with your question is very long. ")
    \o Chars("The answer might be truncated or an error might occur. ")
    \o Chars("Consider asking about specific parts or using a smaller PDF.")
ApiErrorPrefix == <<"U+274C">> \o Chars(" Error communicating with Gemini: ")
KeyMissingError ==
    <<"U+1F6A8">>
    \o Chars(" GOOGLE_API_KEY not found! Please set it in your .env file or environment variables.")
ModelInitErrorPrefix ==
    <<"U+1F6A8">> \o Chars(" Error initializing GenerativeModel (") \o MODEL_NAME \o Chars("): ")
ConfigureErrorPrefix == <<"U+1F6A8">> \o Chars(" Error configuring Google AI: ")
ModelMissingWarning == Chars("Model not initialized, cannot clear chat. Please refresh.")

\* the instruction text of final_prompt before the document text, between it
\* and the question
PromptHead ==
    Chars("Based on the following bank statement text, please answer the user's question.\n\n")
    \o Chars("--- BANK STATEMENT TEXT START ---\n")
PromptMiddle ==
    Chars("\n") \o Chars("--- BANK STATEMENT TEXT END ---\n\n") \o Chars("User's Question: ")

(***************************************************************************)
(* Inputs.                                                                 *)
(***************************************************************************)
\* the text of a bank statement page, and the same with white space around it
Statement1 == Chars("Balance: $100")
Statement2 == Chars(" Balance: $200\n")
\* a page that quotes an error text
QuotingPage == Chars("Ref: Error reading PDF copy")

\* what page.extract_text() returns for a page
PageTexts ==
    { <<>>, Chars(" "), <<"U+00A0", "\f">>, Statement1, Statement2, QuotingPage }

\* an uploaded file: the page texts pdfplumber yields, or the exception it raises
Pdf(pages) == [readable |-> TRUE, pages |-> pages, error |-> <<>>]
BrokenPdf == [readable |-> FALSE, pages |-> <<>>, error |-> Chars("No /Root object!")]

\* the files extract_text_from_pdf is applied to
PdfFiles == {Pdf(p) : p \in SeqsUpTo(PageTexts, MaxPages)} \cup {BrokenPdf}

\* the files the user uploads in a session: a one-page and a two-page
\* statement, a page of white space, a statement that quotes an error text,
\* and a file that is no PDF
SessionPdfs ==
    { Pdf(<<Statement1>>),
      Pdf(<<Statement1, Statement2>>),
      Pdf(<<Chars(" ")>>),
      Pdf(<<QuotingPage>>),
      BrokenPdf }

\* the length of the wrapped prompt of an empty question about this statement
WrappedLength(statement) == Len(PromptHead) + Len(statement) + Len(PromptMiddle)

\* what the user types into st.chat_input: a question about the statement
Questions == { Chars("What is the balance?") }

\* long chat inputs: one that makes the wrapped prompt of a one-page
\* statement exactly PromptWarnLength long, and one that is itself longer
\* than PromptWarnLength
LongPrompts ==
    { Rep(<<"x">>, PromptWarnLength - WrappedLength(Statement1)),
      Rep(<<"y">>, PromptWarnLength + 1) }

\* what chat_session.send_message(...) and response.text do: a reply; an
\* exception of send_message with this str(e); or a response the chat session
\* has taken into its history and whose .text raises with this str(e)
ApiOutcomes ==
    { [ok |-> TRUE, stored |-> TRUE, text |-> Chars("The balance is $100.")],
      [ok |-> FALSE, stored |-> FALSE, text |-> Chars("quota exceeded")],
      [ok |-> FALSE, stored |-> TRUE, text |-> Chars("response has no text part")] }

(***************************************************************************)
(* extract_text_from_pdf                                                   *)
(***************************************************************************)
RECURSIVE full_text_of(_)
\* full_text after the loop over pdf.pages
full_text_of(pages) ==
    IF pages = <<>> THEN <<>>
    ELSE LET n == Len(pages)
             page_text == pages[n]
         IN  full_text_of(SubSeq(pages, 1, n - 1))
                 \o (IF page_text # <<>> THEN page_text \o Chars("\n\n") ELSE <<>>)

extract_text_from_pdf(uploaded_file) ==
    IF uploaded_file = None THEN None
    ELSE LET pdf == Val(uploaded_file)
         IN  IF ~pdf.readable
             THEN Some(Chars("Error reading PDF: ") \o pdf.error
                       \o Chars(". Is it a valid PDF file?"))
             ELSE LET full_text == full_text_of(pdf.pages)
                  IN  Some(IF full_text # <<>> THEN strip(full_text) ELSE NoTextMessage)

\* the test of the 'Process PDF' handler on the extracted text
is_extraction_failure(extracted_text) ==
    \/ Contains(extracted_text, ErrorReadingMarker)
    \/ Contains(extracted_text, NoTextMarker)

\* extract_text_from_pdf and the handler's test, once per input file
Extraction ==
    [ pdf \in SessionPdfs |->
        LET t == Val(extract_text_from_pdf(Some(pdf)))
        IN  [text |-> t, failure |-> is_extraction_failure(t)] ]

(***************************************************************************)
(* The chat handler's texts                                                *)
(***************************************************************************)
\* final_prompt: the text passed to send_message
build_final_prompt(pdf_text, user_prompt) ==
    IF Truthy(pdf_text)
    THEN PromptHead \o Val(pdf_text) \o PromptMiddle \o user_prompt
    ELSE user_prompt

\* whether st.warning is shown for final_prompt
warns(pdf_text, prompt_text) ==
    Truthy(pdf_text) /\ Len(prompt_text) > PromptWarnLength

\* error_message of the except branch
error_message(detail) == ApiErrorPrefix \o detail

Message(role, content) == [role |-> role, content |-> content]

\* the entry appended for the assistant
assistant_entry(outcome) ==
    IF outcome.ok THEN Message("assistant", outcome.text)
    ELSE Message("assistant", error_message(outcome.text))

(***************************************************************************)
(* The chat session object (genai ChatSession)                             *)
(***************************************************************************)
\* a slip: no chat session is stored
start_chat_none(n) == None

\* model.start_chat(history=[]): a new object, the n-th one created
start_chat(n) == Some([id |-> n, history |-> <<>>])

\* chat_session after send_message(text): a response extends the history of
\* the same object with the text sent and the model's content (which has no
\* text when response.text raises), an exception leaves it as it was
send_message(session, text, outcome) ==
    IF outcome.stored
    THEN Some([ id |-> Val(session).id,
                history |-> Val(session).history
                    \o << [role |-> "user", text |-> text],
                          [role |-> "model",
                           text |-> IF outcome.ok THEN outcome.text ELSE <<>>] >> ])
    ELSE session

Notice(kind, text) == [kind |-> kind, text |-> text]

\* what lines 91-92 show in a run that ends with this pdf_text_context
context_info(pdf_text) ==
    IF Truthy(pdf_text) THEN << Notice("info", ContextLoadedInfo) >> ELSE <<>>

(***************************************************************************)
(* State.  st.session_state: the keys it holds, and the values of model,   *)
(* chat_session, messages and pdf_text_context (None, or no messages, for  *)
(* a key it does not hold).  chats_started counts the ChatSession objects  *)
(* the session has held (the identity of a new object).  The other         *)
(* variables are what the latest run of the script read and did: the file  *)
(* it processed, the text it extracted, the chat input, the text it built  *)
(* for the call, the outcome of the call, whether it called st.warning,    *)
(* the lines at one of which a rerun request stopped it ({} when it was    *)
(* not stopped), and the notices on the page afterwards.  stops counts the *)
(* runs that were stopped.                                                 *)
(*                                                                         *)
(* Streamlit ends a run at its next st.* call or st.session_state access   *)
(* (a test for a key, a read, a write) when another interaction is         *)
(* pending, and runs the script again.  The call or access that ends the   *)
(* run is not made: the statements before it have taken effect, that line  *)
(* and the ones after it have not.  An action is one run of the script to  *)
(* its end or to the line that stops it; the notices of a stopped run are  *)
(* those of the run that follows.                                          *)
(***************************************************************************)
VARIABLES keys, model, chat_session, messages, pdf_text_context, chats_started,
          uploaded_pdf, extracted_text, prompt, final_prompt, response, warned,
          stopped, stops, notices

session == <<model, chat_session, messages, pdf_text_context>>
run == <<uploaded_pdf, extracted_text, prompt, final_prompt, response, warned,
         stopped, notices>>
vars == <<keys, model, chat_session, messages, pdf_text_context, chats_started,
          uploaded_pdf, extracted_text, prompt, final_prompt, response, warned,
          stopped, stops, notices>>

\* the keys lines 42-60 put into st.session_state, and the line that assigns each
SessionKeys == {"model", "chat_session", "messages", "pdf_text_context"}
KeyLine == [model |-> 44, chat_session |-> 51, messages |-> 57, pdf_text_context |-> 60]

\* lines 42-60 have run to their end: the session is initialized
Ready == keys = SessionKeys

(***************************************************************************)
(* Where a pending interaction ends a run: at a line with an st.* call or  *)
(* an st.session_state access.  A stop is the set of such lines, next to   *)
(* each other in the run, between which no statement with an effect        *)
(* stands: the run ended at one of them.  {} is a run that is not stopped. *)
(***************************************************************************)
\* the st.error calls of the configuration
ConfigStops == {{}, {15}, {21}}
\* lines 42-60 (line 46: the st.error of the except branch, after
\* GenerativeModel raised), and the rest of the script in a run with no file,
\* no document, no messages and no interaction
InitStops ==
    {{}, {42, 44}, {46}, {49, 50, 51}, {56, 57}, {59, 60},
     {63, 64, 65, 68, 69, 91, 102, 107, 156}}
\* the lines outside the handlers (72, 73: a file is in the uploader, and
\* 'Process PDF' pressed; 92, 93: a document text is loaded; 103, 104: there
\* are messages)
PassStops ==
    {{}, {42, 49, 56, 59, 63, 64, 65, 68, 69, 72, 73, 91, 92, 93, 102, 103, 104, 107, 156}}
\* the 'Process PDF' handler after the extraction: lines 76-77 and the rest
\* of the script in the failure branch, lines 79-87 in the success branch
PdfFailureStops == {{}, {76, 77}, {91, 102, 103, 104, 107, 156}}
PdfSuccessStops == {{}, {79}, {80, 82, 83, 86}, {87}}
PdfStops == PdfFailureStops \cup PdfSuccessStops
\* the 'Clear PDF Context & Chat' handler: lines 94-97
ClearStops == {{}, {94}, {95}, {96}, {97}}
\* the chat handler: lines 108-151, and the button of line 156 after it
ChatStops ==
    {{}, {108, 113}, {114, 115}, {119, 125}, {132}, {139, 140, 141, 143},
     {145, 146}, {150, 151}, {156}}
\* the 'Clear Chat Only' handler: lines 157-162
ResetStops == {{}, {157, 159}, {161}, {162}}

\* the run ended before the statement of this line took effect
Before(stop, line) == stop # {} /\ \A l \in stop : l <= line

\* the run ends at this stop, or is not stopped
StopAt(stop) ==
    /\ stop # {} => stops < MaxStops
    /\ stopped' = stop
    /\ stops' = IF stop = {} THEN stops ELSE stops + 1

\* a run that processes no file and handles no chat input
NoPdfRun == uploaded_pdf' = None /\ extracted_text' = None
NoChatRun == prompt' = None /\ final_prompt' = None /\ response' = None /\ warned' = FALSE

\* before the first run of the script: st.session_state is empty
Init ==
    /\ keys = {}
    /\ model = None
    /\ chat_session = None
    /\ messages = <<>>
    /\ pdf_text_context = None
    /\ chats_started = 0
    /\ uploaded_pdf = None
    /\ extracted_text = None
    /\ prompt = None
    /\ final_prompt = None
    /\ response = None
    /\ warned = FALSE
    /\ stopped = {}
    /\ stops = 0
    /\ notices = <<>>

\* a run that ends in the configuration, lines 10-22, which every run goes
\* through: the API key is missing (st.stop at line 16) or genai.configure
\* raises (st.stop at line 22)
ConfigError(have_key, configure_ok, stop) ==
    /\ ~(have_key /\ configure_ok)
    /\ stop \in {{}, IF ~have_key THEN {15} ELSE {21}}
    /\ NoPdfRun /\ NoChatRun
    /\ StopAt(stop)
    /\ notices' =
          IF stop # {} THEN context_info(pdf_text_context)
          ELSE IF ~have_key THEN << Notice("error", KeyMissingError) >>
          ELSE << Notice("error", ConfigureErrorPrefix \o Chars("invalid transport")) >>
    /\ UNCHANGED <<keys, session, chats_started>>

\* a run in a session that does not hold all its keys yet: lines 42-60 set
\* the missing ones, in their order, up to the line that stops the run; when
\* GenerativeModel raises (line 44) the run shows the error and ends at line
\* 47 (st.stop).  No widget has been shown to this session, so no handler
\* acts.
InitRun(model_ok, stop) ==
    /\ ~Ready
    /\ stop \in InitStops
    /\ LET proceeds == "model" \in keys \/ model_ok
           assigned == {k \in SessionKeys \ keys : proceeds /\ ~Before(stop, KeyLine[k])}
       IN  /\ ~proceeds => stop \in {{}, {42, 44}, {46}}
           /\ stop = {46} => ~proceeds
           /\ keys' = keys \cup assigned
           /\ model' = IF "model" \in assigned THEN Some(MODEL_NAME) ELSE model
           /\ chat_session' = IF "chat_session" \in assigned
                              THEN start_chat(chats_started + 1) ELSE chat_session
           /\ chats_started' = IF "chat_session" \in assigned
                               THEN chats_started + 1 ELSE chats_started
           /\ messages' = IF "messages" \in assigned THEN <<>> ELSE messages
           /\ pdf_text_context' = IF "pdf_text_context" \in assigned
                                  THEN None ELSE pdf_text_context
           /\ notices' = IF stop = {} /\ ~proceeds
                         THEN << Notice("error", ModelInitErrorPrefix \o Chars("unknown model")) >>
                         ELSE <<>>
    /\ NoPdfRun /\ NoChatRun
    /\ StopAt(stop)

\* a run of an initialized session in which no handler acts: nothing was
\* pressed, or the run was stopped before the handler of what was pressed
\* did anything
Rerender(stop) ==
    /\ Ready
    /\ stop \in PassStops
    /\ NoPdfRun /\ NoChatRun
    /\ StopAt(stop)
    /\ notices' = context_info(pdf_text_context)
    /\ UNCHANGED <<keys, session, chats_started>>

\* pdf_text_context after an extraction the handler takes as failed
failed_context(old_context) == None

\* 'Process PDF' pressed with this file in the uploader, and the text
\* extracted: lines 71-88.  After the failure branch the run goes on through
\* the rest of the script, the success branch ends with st.rerun().
ProcessPdf(pdf, stop) ==
    /\ Ready
    /\ chats_started < MaxChats
    /\ uploaded_pdf' = Some(pdf)
    /\ extracted_text' = Some(Extraction[pdf].text)
    /\ NoChatRun
    /\ StopAt(stop)
    /\ IF Extraction[pdf].failure
       THEN /\ stop \in PdfFailureStops
            /\ pdf_text_context' = IF Before(stop, 77) THEN pdf_text_context
                                   ELSE failed_context(pdf_text_context)
            /\ notices' = (IF stop = {}
                           THEN << Notice("sidebar.error", Extraction[pdf].text) >>
                           ELSE <<>>)
                          \o context_info(pdf_text_context')
            /\ UNCHANGED <<keys, model, chat_session, messages, chats_started>>
       ELSE /\ stop \in PdfSuccessStops
            /\ pdf_text_context' = IF Before(stop, 79) THEN pdf_text_context
                                   ELSE Some(Extraction[pdf].text)
            /\ messages' = IF Before(stop, 86) THEN messages ELSE <<>>
            /\ chat_session' = IF Before(stop, 87) THEN chat_session
                               ELSE start_chat(chats_started + 1)
            /\ chats_started' = IF Before(stop, 87) THEN chats_started
                                ELSE chats_started + 1
            /\ notices' = context_info(pdf_text_context')
            /\ UNCHANGED <<keys, model>>

\* pdf_text_context after 'Clear PDF Context & Chat'
cleared_context(old_context) == None

\* 'Clear PDF Context & Chat' pressed; the button exists only while
\* pdf_text_context is truthy: lines 91-98
ClearDocument(stop) ==
    /\ Ready
    /\ chats_started < MaxChats
    /\ Truthy(pdf_text_context)
    /\ stop \in ClearStops
    /\ pdf_text_context' = IF Before(stop, 94) THEN pdf_text_context
                           ELSE cleared_context(pdf_text_context)
    /\ messages' = IF Before(stop, 95) THEN messages ELSE <<>>
    /\ chat_session' = IF Before(stop, 96) THEN chat_session
                       ELSE start_chat(chats_started + 1)
    /\ chats_started' = IF Before(stop, 96) THEN chats_started ELSE chats_started + 1
    /\ notices' = context_info(pdf_text_context')
    /\ NoPdfRun /\ NoChatRun
    /\ StopAt(stop)
    /\ UNCHANGED <<keys, model>>

\* messages after the chat handler: the user's entry is appended at line 113,
\* the assistant's at line 146 or 151
chat_messages(old_messages, user_prompt, outcome, stop) ==
    IF Before(stop, 113) THEN old_messages
    ELSE IF Before(stop, 151) THEN old_messages \o << Message("user", user_prompt) >>
    ELSE old_messages \o << Message("user", user_prompt), assistant_entry(Val(outcome)) >>

\* a chat input submitted: lines 107-151.  outcome is what the call of line
\* 143 and response.text do in a run that comes to them, and None in a run
\* stopped before.  final_prompt is assigned at line 118 and built at lines
\* 122-128.
SendMessage(user_prompt, outcome, stop) ==
    /\ Ready
    /\ "chat_session" \in keys
    /\ Len(messages) + 2 <= MaxMessages
    /\ stop \in ChatStops
    /\ Before(stop, 143) <=> (outcome = None)
    /\ stop = {145, 146} => Val(outcome).ok
    /\ stop = {150, 151} => ~Val(outcome).ok
    /\ stop = {132} => warns(pdf_text_context, build_final_prompt(pdf_text_context, user_prompt))
    /\ LET built == build_final_prompt(pdf_text_context, user_prompt)
       IN  /\ prompt' = Some(user_prompt)
           /\ final_prompt' = IF Before(stop, 115) THEN None
                              ELSE IF Before(stop, 125) THEN Some(user_prompt)
                              ELSE Some(built)
           /\ warned' = (~Before(stop, 132) /\ warns(pdf_text_context, built))
           /\ response' = outcome
           /\ messages' = chat_messages(messages, user_prompt, outcome, stop)
           /\ chat_session' = IF outcome # None
                              THEN send_message(chat_session, built, Val(outcome))
                              ELSE chat_session
           /\ notices' =
                 IF stop # {} THEN context_info(pdf_text_context)
                 ELSE context_info(pdf_text_context)
                        \o (IF warns(pdf_text_context, built)
                            THEN << Notice("warning", LongPromptWarning) >> ELSE <<>>)
                        \o (IF Val(outcome).ok THEN <<>>
                            ELSE << Notice("error", error_message(Val(outcome).text)) >>)
    /\ StopAt(stop)
    /\ NoPdfRun
    /\ UNCHANGED <<keys, model, pdf_text_context, chats_started>>

\* messages and pdf_text_context after 'Clear Chat Only (Keep PDF)'
reset_messages(old_messages) == <<>>
reset_context(old_context) == old_context

\* 'Clear Chat Only (Keep PDF)' pressed: lines 156-165
ResetChat(stop) ==
    /\ Ready
    /\ chats_started < MaxChats
    /\ stop \in ResetStops
    /\ IF "model" \in keys
       THEN /\ chat_session' = IF Before(stop, 159) THEN chat_session
                               ELSE start_chat(chats_started + 1)
            /\ chats_started' = IF Before(stop, 159) THEN chats_started
                                ELSE chats_started + 1
            /\ messages' = IF Before(stop, 161) THEN messages
                           ELSE reset_messages(messages)
            /\ pdf_text_context' = reset_context(pdf_text_context)
            /\ notices' = context_info(pdf_text_context')
       ELSE /\ stop = {}
            /\ notices' = context_info(pdf_text_context)
                             \o << Notice("warning", ModelMissingWarning) >>
            /\ UNCHANGED <<chat_session, chats_started, messages, pdf_text_context>>
    /\ NoPdfRun /\ NoChatRun
    /\ StopAt(stop)
    /\ UNCHANGED <<keys, model>>

Next ==
    \/ \E have_key, configure_ok \in BOOLEAN, stop \in ConfigStops :
           ConfigError(have_key, configure_ok, stop)
    \/ \E model_ok \in BOOLEAN, stop \in InitStops : InitRun(model_ok, stop)
    \/ \E stop \in PassStops : Rerender(stop)
    \/ \E pdf \in SessionPdfs, stop \in PdfStops : ProcessPdf(pdf, stop)
    \/ \E stop \in ClearStops : ClearDocument(stop)
    \/ \E user_prompt \in Questions, outcome \in {None} \cup {Some(o) : o \in ApiOutcomes},
          stop \in ChatStops :
           SendMessage(user_prompt, outcome, stop)
    \/ \E stop \in ResetStops : ResetChat(stop)

Spec == Init /\ [][Next]_vars

(***************************************************************************)
(* The chat handler with long inputs: a session that has been initialized  *)
(* and has no messages, with no document or with one just loaded, and the  *)
(* runs of the chat handler in it.                                         *)
(***************************************************************************)
ChatInit ==
    /\ keys = SessionKeys
    /\ model = Some(MODEL_NAME)
    /\ messages = <<>>
    /\ \/ /\ pdf_text_context = None
          /\ chats_started = 1
          /\ uploaded_pdf = None
          /\ extracted_text = None
       \/ \E pdf \in SessionPdfs :
             /\ ~Extraction[pdf].failure
             /\ pdf_text_context = Some(Extraction[pdf].text)
             /\ chats_started = 2
             /\ uploaded_pdf = Some(pdf)
             /\ extracted_text = Some(Extraction[pdf].text)
    /\ chat_session = start_chat(chats_started)
    /\ prompt = None
    /\ final_prompt = None
    /\ response = None
    /\ warned = FALSE
    /\ stopped = {}
    /\ stops = 0
    /\ notices = context_info(pdf_text_context)

ChatNext ==
    \E user_prompt \in Questions \cup LongPrompts,
       outcome \in {None} \cup {Some(o) : o \in ApiOutcomes}, stop \in ChatStops :
        SendMessage(user_prompt, outcome, stop)

ChatSpec == ChatInit /\ [][ChatNext]_vars

(***************************************************************************)
(* extract_text_from_pdf on its own: a file is given, the function is      *)
(* applied to it once.                                                     *)
(***************************************************************************)
ExtractInit ==
    /\ keys = {}
    /\ model = None
    /\ chat_session = None
    /\ messages = <<>>
    /\ pdf_text_context = None
    /\ chats_started = 0
    /\ uploaded_pdf \in {Some(pdf) : pdf \in PdfFiles}
    /\ extracted_text = None
    /\ prompt = None
    /\ final_prompt = None
    /\ response = None
    /\ warned = FALSE
    /\ stopped = {}
    /\ stops = 0
    /\ notices = <<>>

Extract ==
    /\ uploaded_pdf # None
    /\ extracted_text = None
    /\ extracted_text' = extract_text_from_pdf(uploaded_pdf)
    /\ UNCHANGED <<keys, session, chats_started, uploaded_pdf, prompt, final_prompt,
                   response, warned, stopped, stops, notices>>

ExtractSpec == ExtractInit /\ [][Extract]_vars

(***************************************************************************)
(* Properties                                                              *)
(***************************************************************************)
\* the notices of the run include one of this kind
Shown(kind) == \E i \in 1..Len(notices) : notices[i].kind = kind

\* a chat session object created in this step: empty, and not one of the
\* objects created before
FreshChat ==
    /\ chat_session' # None
    /\ Val(chat_session').history = <<>>
    /\ Val(chat_session').id > chats_started

\* the chat session held after the step is another object than before
ChatReplaced ==
    chat_session' # None /\ (chat_session = None \/ Val(chat_session').id # Val(chat_session).id)

\* a 'Process PDF' step whose extraction the handler takes as a text
LoadDocument ==
    \E pdf \in SessionPdfs, stop \in PdfSuccessStops :
        ProcessPdf(pdf, stop) /\ ~Extraction[pdf].failure

\* a 'Clear PDF Context & Chat' step, a 'Clear Chat Only' step
ClearDocumentRun == \E stop \in ClearStops : ClearDocument(stop)
ResetChatRun == \E stop \in ResetStops : ResetChat(stop)

\* the page texts that are not empty, joined with a blank line between them
RECURSIVE BlankLineJoin(_)
BlankLineJoin(pages) ==
    IF pages = <<>> THEN <<>>
    ELSE LET rest == BlankLineJoin(Tail(pages))
         IN  IF Head(pages) = <<>> THEN rest
             ELSE IF rest = <<>> THEN Head(pages)
             ELSE Head(pages) \o Chars("\n\n") \o rest

\* a notice that reports what the run did (the others show the state)
IsReport(notice) == notice.kind # "info"

\* C1: a 'Process PDF' run that reports an extraction failure leaves the
\* session (document text, messages, chat session) as it was and reports only
\* the failure reason.
C1_FailureLeavesSessionUnchanged ==
    [][ (\E i \in 1..Len(notices') : notices'[i].kind = "sidebar.error")
            => /\ pdf_text_context' = pdf_text_context
               /\ messages' = messages
               /\ chat_session' = chat_session
               /\ SelectSeq(notices', IsReport)
                      = << Notice("sidebar.error", Val(extracted_text')) >> ]_vars

\* C2: a successful 'Process PDF', 'Clear PDF Context & Chat' and 'Clear Chat
\* Only' each end with no messages and a new, empty chat session; and every
\* step that replaces the chat session ends with no messages.
C2_ResetsClearMessages ==
    [][ /\ (LoadDocument \/ ClearDocumentRun \/ ResetChatRun)
               => (messages' = <<>> /\ FreshChat /\ ChatReplaced)
        /\ ChatReplaced => messages' = <<>> ]_vars

\* C3: 'Clear PDF Context & Chat' ends with no document text, 'Clear Chat
\* Only' with the document text it started with.
C3_ClearDropsResetKeeps ==
    [][ /\ ClearDocumentRun => pdf_text_context' = None
        /\ ResetChatRun => pdf_text_context' = pdf_text_context ]_vars

\* the text the assistant's entry shows for a failed call
ClaimedErrorText(detail) == Chars("Error communicating with Gemini: ") \o detail

EndsWith(s, suffix) ==
    Len(s) >= Len(suffix) /\ SubSeq(s, Len(s) - Len(suffix) + 1, Len(s)) = suffix

\* C4: a chat input appends the user's text and then one assistant entry,
\* the reply or the error text; the run goes on, and the document text and
\* the chat session object stay.
C4_SendAppendsTwo ==
    [][ prompt' # None =>
          LET u == Val(prompt')
              r == Val(response')
          IN  /\ Len(messages') = Len(messages) + 2
              /\ SubSeq(messages', 1, Len(messages)) = messages
              /\ messages'[Len(messages) + 1] = Message("user", u)
              /\ messages'[Len(messages) + 2].role = "assistant"
              /\ IF r.ok
                 THEN messages'[Len(messages) + 2].content = r.text
                 ELSE EndsWith(messages'[Len(messages) + 2].content, ClaimedErrorText(r.text))
              /\ Ready'
              /\ pdf_text_context' = pdf_text_context
              /\ Val(chat_session').id = Val(chat_session).id ]_vars

\* C5: extract gives the no-text failure exactly when the joined page texts
\* are empty after trimming, and otherwise the trimmed joined text.
C5_ExtractTrimmedOrFailure ==
    (extracted_text # None /\ Val(uploaded_pdf).readable) =>
        LET t == strip(BlankLineJoin(Val(uploaded_pdf).pages))
        IN  IF t = <<>>
            THEN Contains(Val(extracted_text), NoTextMarker)
            ELSE Val(extracted_text) = t

\* the call was made with the text built, which is in the chat session's
\* history when the call succeeded
SentInFull ==
    /\ response # None
    /\ Val(response).ok =>
          LET h == Val(chat_session).history
          IN  Len(h) >= 2 /\ h[Len(h) - 1] = [role |-> "user", text |-> Val(final_prompt)]

\* C6: in a run of the chat handler that reaches its end, the warning is
\* shown exactly when the text built is longer than 28,000 characters, with or
\* without a document, and the text is sent.
C6_WarnsIffLong ==
    (prompt # None /\ stopped = {}) =>
        /\ (warned /\ Shown("warning")) <=> Len(Val(final_prompt)) > PromptWarnLength
        /\ SentInFull

\* the instruction text around the document text and the question
InstructionTemplate(statement, question) ==
    Chars("Based on the following bank statement text, please answer the user's question.\n\n")
    \o Chars("--- BANK STATEMENT TEXT START ---\n") \o statement
    \o Chars("\n--- BANK STATEMENT TEXT END ---\n\n")
    \o Chars("User's Question: ") \o question

\* C7: in a run that makes the call, with a document text present the text
\* sent is the instruction template around it and the question, without one it
\* is the question; the entry in messages is the question itself.
C7_PayloadWrapsDocument ==
    response # None =>
        /\ pdf_text_context # None =>
              Val(final_prompt) = InstructionTemplate(Val(pdf_text_context), Val(prompt))
        /\ pdf_text_context = None => Val(final_prompt) = Val(prompt)
        /\ messages[Len(messages) - (IF stopped \in {{}, {156}} THEN 1 ELSE 0)]
              = Message("user", Val(prompt))

\* C8: once the session is initialized (a run has passed lines 42-60) it
\* holds a chat session, whatever runs follow and wherever they are stopped.
C8_ChatSessionPresent ==
    Ready => chat_session # None

\* 'Clear PDF Context & Chat' stopped at line 96, before it stores the new
\* chat session: the session still holds the one that made an exchange
C8_Witness ==
    /\ Ready
    /\ stopped = {96}
    /\ pdf_text_context = None
    /\ messages = <<>>
    /\ chat_session # None
    /\ Len(Val(chat_session).history) >= 2

\* C9: a readable file whose joined page texts are not empty after trimming
\* is loaded: after 'Process PDF' the document text is that text.
C9_NonEmptyTextIsLoaded ==
    (uploaded_pdf # None /\ Ready /\ Val(uploaded_pdf).readable) =>
        LET t == strip(BlankLineJoin(Val(uploaded_pdf).pages))
        IN  t # <<>> => pdf_text_context = Some(t)

\* C10: a step that changes the document text also starts a new, empty chat
\* session and empties messages.
C10_ContextChangeResetsChat ==
    [][ pdf_text_context' # pdf_text_context
            => (messages' = <<>> /\ FreshChat /\ ChatReplaced) ]_vars

====
